---------------------------- MODULE Spec2Model ----------------------------
(***************************************************************************)
(* Wire protocol of the mock-loop controller (src/src/lib.rs): the message *)
(* schema, its postcard encoding, the COBS framing of to_slice_cobs and    *)
(* from_bytes_cobs, the AppState cycle and the defmt formatter.            *)
(*                                                                         *)
(* Representation of machine values:                                       *)
(*   u8   a number in 0..255                                               *)
(*   f32  its IEEE-754 bit pattern as 4 bytes, most significant first      *)
(*   u64  its 8 bytes, most significant first                              *)
(*   u32  (enum variant index) a record [hi |-> bits 28..31,               *)
(*        lo |-> bits 0..27]                                               *)
(* Quantities of uom (Frequency, Pressure, VolumeRate) are an f32 in the   *)
(* base unit and serialize as that f32.                                    *)
(***************************************************************************)
EXTENDS Naturals, Sequences, FiniteSets, TLC

VARIABLES
    app_state,   \* the controller's current mode (an AppState)
    setpoint,    \* the controller's last applied Setpoint
    call,        \* the last serialize_* call: its value, buffer and result
    stream,      \* bytes in flight on the serial link
    wire,        \* what the bytes in flight were made from
    recv,        \* the last deserialize_* call: its chunk, buffer and result
    resync,      \* TRUE once the receiver has dropped a chunk and not yet decoded one
    log          \* the last defmt rendering

vars == <<app_state, setpoint, call, stream, wire, recv, resync, log>>

-----------------------------------------------------------------------------
(* Bounds of the model *)

\* Garbage spans injected on the link are at most this long.
MaxGarbageLen == 2

\* Buffers up to this many bytes longer or shorter than the frame are tried.
MaxSlack == 2

-----------------------------------------------------------------------------
(* Sequence helpers *)

Min(a, b) == IF a < b THEN a ELSE b

Take(s, n) == SubSeq(s, 1, Min(n, Len(s)))

Drop(s, n) == SubSeq(s, n + 1, Len(s))

Count(s, b) == Cardinality({i \in 1..Len(s) : s[i] = b})

\* index of the first b in s, 0 when there is none
Position(s, b) ==
    IF \E i \in 1..Len(s) : s[i] = b
      THEN CHOOSE i \in 1..Len(s) : s[i] = b /\ \A j \in 1..(i - 1) : s[j] # b
      ELSE 0

Pow2(k) == 2 ^ k

-----------------------------------------------------------------------------
(* Schema: AppState and its cycle *)

AppStates == {"StandBy", "Running", "Fault"}

AppState_default == "StandBy"

\* variant index assigned by the derive, in declaration order
variant_index(s) ==
    CASE s = "StandBy" -> 0
      [] s = "Running" -> 1
      [] s = "Fault"   -> 2

\* next with Fault made terminal
next_stuck(s) ==
    CASE s = "StandBy" -> "Running"
      [] s = "Running" -> "Fault"
      [] s = "Fault"   -> "Fault"

next(s) ==
    CASE s = "StandBy" -> "Running"
      [] s = "Running" -> "Fault"
      [] s = "Fault"   -> "StandBy"

-----------------------------------------------------------------------------
(* f32 bit patterns used by the program *)

F32_ZERO == <<0, 0, 0, 0>>             \* 0.0f32
F32_MAX == <<127, 127, 255, 255>>      \* f32::MAX = 0x7F7FFFFF
F32_FIVE_EIGHTHS == <<63, 32, 0, 0>>   \* 5.0 / 8.0 = 0.625 = 0x3F200000
F32_THREE_SEVENTHS == <<62, 219, 109, 183>>  \* 3.0 / 7.0 = 0x3EDB6DB7

\* Pressure::new::<bar>(v): v * 1.0E5 in f32 (the base unit is the pascal),
\* tabulated on the values the program passes
Pressure_new_bar(v) ==
    CASE v = F32_ZERO -> F32_ZERO                  \* 0.0 * 1.0E5 = 0.0
      [] v = <<63, 128, 0, 0>> -> <<71, 195, 80, 0>>  \* 1.0 bar = 100000.0 Pa

\* Frequency::new::<hertz>(v): the hertz is the base unit, v * 1.0
Frequency_new_hertz(v) == v

\* the default with the systole ratio of the field's note
Setpoint_default_three_sevenths ==
    [ enable |-> FALSE,
      mockloop_setpoint |->
        [ systemic_resistance |-> F32_MAX,
          pulmonary_resistance |-> F32_MAX,
          systemic_afterload_compliance |-> F32_ZERO,
          pulmonary_afterload_compliance |-> F32_ZERO ],
      heart_controller_setpoint |->
        [ heart_rate |-> Frequency_new_hertz(F32_ZERO),
          pressure |-> Pressure_new_bar(F32_ZERO),
          systole_ratio |-> F32_THREE_SEVENTHS ] ]

Setpoint_default ==
    [ enable |-> FALSE,
      mockloop_setpoint |->
        [ systemic_resistance |-> F32_MAX,
          pulmonary_resistance |-> F32_MAX,
          systemic_afterload_compliance |-> F32_ZERO,
          pulmonary_afterload_compliance |-> F32_ZERO ],
      heart_controller_setpoint |->
        [ heart_rate |-> Frequency_new_hertz(F32_ZERO),
          pressure |-> Pressure_new_bar(F32_ZERO),
          systole_ratio |-> F32_FIVE_EIGHTHS ] ]

-----------------------------------------------------------------------------
(* postcard wire format of the primitive types *)

\* bit k (0 = least significant) of a value held as bytes, most significant first
Bit(v, k) ==
    IF k >= 8 * Len(v) THEN 0
    ELSE (v[Len(v) - (k \div 8)] \div Pow2(k % 8)) % 2

\* the i-th group of 7 bits (0 = least significant) of v
Group(v, i) ==
    Bit(v, 7 * i) + 2 * Bit(v, 7 * i + 1) + 4 * Bit(v, 7 * i + 2)
      + 8 * Bit(v, 7 * i + 3) + 16 * Bit(v, 7 * i + 4)
      + 32 * Bit(v, 7 * i + 5) + 64 * Bit(v, 7 * i + 6)

\* v >> (7 * i) < 128
LastGroup(v, i) == \A j \in (i + 1)..(((8 * Len(v)) \div 7) + 1) : Group(v, j) = 0

\* bool: one byte, 1 or 0
ser_bool(b) == <<IF b THEN 1 ELSE 0>>

\* f32 written most significant byte first
ser_f32_be(x) == <<x[1], x[2], x[3], x[4]>>

\* f32: to_bits().to_le_bytes()
ser_f32(x) == <<x[4], x[3], x[2], x[1]>>

\* u64: a varint, 7 bits a byte, least significant group first, bit 7 set on
\* every byte but the last
RECURSIVE varint_u64(_, _)
varint_u64(v, i) ==
    IF LastGroup(v, i) THEN <<Group(v, i)>>
    ELSE <<Group(v, i) + 128>> \o varint_u64(v, i + 1)

ser_u64(v) == varint_u64(v, 0)

\* a unit variant: its variant index as a varint(u32); the indices are < 128
ser_AppState(s) == <<variant_index(s)>>

ser_MockloopSetpoint(m) ==
    ser_f32(m.systemic_resistance) \o ser_f32(m.pulmonary_resistance)
      \o ser_f32(m.systemic_afterload_compliance)
      \o ser_f32(m.pulmonary_afterload_compliance)

ser_HeartControllerSetpoint(h) ==
    ser_f32(h.heart_rate) \o ser_f32(h.pressure) \o ser_f32(h.systole_ratio)

ser_Setpoint(s) ==
    ser_bool(s.enable) \o ser_MockloopSetpoint(s.mockloop_setpoint)
      \o ser_HeartControllerSetpoint(s.heart_controller_setpoint)

ser_Measurements(m) ==
    ser_u64(m.timestamp) \o ser_f32(m.regulator_actual_pressure)
      \o ser_f32(m.systemic_flow) \o ser_f32(m.pulmonary_flow)
      \o ser_f32(m.systemic_preload_pressure)
      \o ser_f32(m.systemic_afterload_pressure)
      \o ser_f32(m.pulmonary_preload_pressure)
      \o ser_f32(m.pulmonary_afterload_pressure)

ser_Report(r) ==
    ser_Setpoint(r.setpoint) \o ser_AppState(r.app_state)
      \o ser_Measurements(r.measurements)

-----------------------------------------------------------------------------
(* REPORT_BYTES and SETPOINT_BYTES: core::mem::size_of of the structs *)

\* alignment of u64 on the targets the crate is built for (8 on thumbv7em and
\* x86_64, 4 on 32-bit x86)
U64Aligns == {4, 8}

align_up(n, a) == ((n + a - 1) \div a) * a

\* four f32
size_of_MockloopSetpoint == 4 * 4

\* two quantities (an f32 and a zero-sized unit marker each) and an f32
size_of_HeartControllerSetpoint == 3 * 4

\* the size of the fields alone, without the padding after the bool
SETPOINT_BYTES_packed ==
    1 + size_of_MockloopSetpoint + size_of_HeartControllerSetpoint

\* a bool and the two structs, aligned to 4
SETPOINT_BYTES ==
    align_up(1 + size_of_MockloopSetpoint + size_of_HeartControllerSetpoint, 4)

\* a u64 and seven quantities
size_of_Measurements(a64) == align_up(8 + 7 * 4, a64)

\* a Setpoint, an AppState (one byte) and a Measurements
REPORT_BYTES(a64) ==
    align_up(SETPOINT_BYTES + 1 + size_of_Measurements(a64), a64)

-----------------------------------------------------------------------------
(* postcard::to_slice_cobs: the serializer pushes the payload, byte by byte, *)
(* into a Cobs flavor over a Slice flavor over the caller's buffer.          *)

\* try_push that keeps the last byte of the buffer free
Slice_try_push_short(f, b) ==
    IF ~f.ok THEN f
    ELSE IF f.cursor + 1 < Len(f.buf)
      THEN [f EXCEPT !.buf[f.cursor + 1] = b, !.cursor = f.cursor + 1]
      ELSE [f EXCEPT !.ok = FALSE]

\* Slice::try_push; the flavor is [buf, cursor, ok, panic] and the encoder
\* state of Cobs rides in the same record
Slice_try_push(f, b) ==
    IF ~f.ok THEN f
    ELSE IF f.cursor < Len(f.buf)
      THEN [f EXCEPT !.buf[f.cursor + 1] = b, !.cursor = f.cursor + 1]
      ELSE [f EXCEPT !.ok = FALSE]

\* IndexMut for Slice: asserts idx < the buffer's length, panics otherwise
Slice_index_mut(f, idx, b) ==
    IF idx < Len(f.buf) THEN [f EXCEPT !.buf[idx + 1] = b]
    ELSE [f EXCEPT !.ok = FALSE, !.panic = TRUE]

\* Cobs::try_new: EncoderState::default() and one placeholder byte
Cobs_try_new(buf) ==
    Slice_try_push([buf |-> buf, cursor |-> 0, ok |-> TRUE, panic |-> FALSE,
                    code_idx |-> 0, num_bt_sent |-> 1, offset_idx |-> 1], 0)

\* try_push that passes every byte on as it is
Cobs_try_push_unstuffed(f, data) ==
    IF ~f.ok THEN f
    ELSE Slice_try_push([f EXCEPT !.num_bt_sent = f.num_bt_sent + 1,
                                  !.offset_idx = f.offset_idx + 1], data)

\* Cobs::try_push over EncoderState::push
Cobs_try_push(f, data) ==
    IF ~f.ok THEN f
    ELSE IF data = 0 THEN
      \* ModifyFromStartAndSkip: close the block, open the next
      Slice_try_push([Slice_index_mut(f, f.code_idx, f.num_bt_sent)
                        EXCEPT !.code_idx = f.code_idx + f.offset_idx,
                               !.num_bt_sent = 1,
                               !.offset_idx = 1], 0)
    ELSE IF f.num_bt_sent + 1 = 255 THEN
      \* ModifyFromStartAndPushAndSkip: a full block of 254 bytes
      Slice_try_push(
        Slice_try_push([Slice_index_mut(f, f.code_idx, 255)
                          EXCEPT !.code_idx = f.code_idx + f.offset_idx + 1,
                                 !.num_bt_sent = 1,
                                 !.offset_idx = 1], data), 0)
    ELSE
      \* AddSingle
      Slice_try_push([f EXCEPT !.num_bt_sent = f.num_bt_sent + 1,
                               !.offset_idx = f.offset_idx + 1], data)

RECURSIVE Cobs_push_all(_, _, _)
Cobs_push_all(f, payload, i) ==
    IF i > Len(payload) \/ ~f.ok THEN f
    ELSE Cobs_push_all(Cobs_try_push(f, payload[i]), payload, i + 1)

\* Cobs::finalize: the last block's code, then the 0x00 sentinel
Cobs_finalize(f) ==
    IF ~f.ok THEN f
    ELSE Slice_try_push(Slice_index_mut(f, f.code_idx, f.num_bt_sent), 0)

\* the result: Ok(the used part of buf) or Err(SerializeBufferFull), or a
\* panic; buf is the caller's buffer as the call leaves it
to_slice_cobs(payload, buf) ==
    LET f == Cobs_finalize(Cobs_push_all(Cobs_try_new(buf), payload, 1))
    IN  [ ok   |-> f.ok,
          err  |-> IF f.ok THEN "" ELSE IF f.panic THEN "panic"
                   ELSE "SerializeBufferFull",
          used |-> IF f.ok THEN f.cursor ELSE 0,
          buf  |-> f.buf ]

serialize_report(report, buf) == to_slice_cobs(ser_Report(report), buf)

serialize_setpoint(sp, buf) == to_slice_cobs(ser_Setpoint(sp), buf)

\* the bytes the caller gets back from an Ok(..)
Returned(res) == SubSeq(res.buf, 1, res.used)

-----------------------------------------------------------------------------
(* cobs::decode_in_place, as from_bytes_cobs calls it *)

\* the decoder's loop; d is [buf, src, dst, ok], src and dst count from 0
RECURSIVE decode_loop(_, _)
decode_loop(d, src_end) ==
    IF d.src >= src_end THEN d
    ELSE
      LET code == d.buf[d.src + 1] IN
      IF d.src + code > src_end /\ code # 1 THEN [d EXCEPT !.ok = FALSE]
      ELSE
        LET n == IF code = 0 THEN 0 ELSE code - 1   \* the block's data bytes
            moved == [i \in 1..Len(d.buf) |->
                        IF i > d.dst /\ i <= d.dst + n
                          THEN d.buf[d.src + 1 + (i - d.dst)]
                          ELSE d.buf[i]]
            src2 == d.src + 1 + n
            zero == code # 255 /\ src2 < src_end
        IN  decode_loop(
              [ buf |-> IF zero THEN [moved EXCEPT ![d.dst + n + 1] = 0] ELSE moved,
                src |-> src2,
                dst |-> IF zero THEN d.dst + n + 1 ELSE d.dst + n,
                ok  |-> TRUE ],
              src_end)

\* decode_in_place that runs over the sentinel to the end of the buffer
decode_in_place_whole(buff) ==
    decode_loop([buf |-> buff, src |-> 0, dst |-> 0, ok |-> TRUE], Len(buff))

\* stops at the first 0x00, or at the end of the buffer when there is none
decode_in_place(buff) ==
    LET z == Position(buff, 0)
        src_end == IF z = 0 THEN Len(buff) ELSE z - 1
    IN  decode_loop([buf |-> buff, src |-> 0, dst |-> 0, ok |-> TRUE], src_end)

-----------------------------------------------------------------------------
(* postcard deserializer: every take returns [ok, err, val, rest] *)

Ok(v, rest) == [ok |-> TRUE, err |-> "", val |-> v, rest |-> rest]

Err(e) == [ok |-> FALSE, err |-> e, val |-> <<>>, rest |-> <<>>]

de_bool(bytes) ==
    IF bytes = <<>> THEN Err("DeserializeUnexpectedEnd")
    ELSE IF bytes[1] = 0 THEN Ok(FALSE, Tail(bytes))
    ELSE IF bytes[1] = 1 THEN Ok(TRUE, Tail(bytes))
    ELSE Err("DeserializeBadBool")

\* f32::from_bits(u32::from_le_bytes(..))
de_f32(bytes) ==
    IF Len(bytes) < 4 THEN Err("DeserializeUnexpectedEnd")
    ELSE Ok(<<bytes[4], bytes[3], bytes[2], bytes[1]>>, Drop(bytes, 4))

\* try_take_varint_*: at most max bytes, the last of them at most max_last;
\* val is the sequence of 7-bit groups read
RECURSIVE take_varint(_, _, _, _, _)
take_varint(bytes, i, max, max_last, groups) ==
    IF i = max THEN Err("DeserializeBadVarint")
    ELSE IF bytes = <<>> THEN Err("DeserializeUnexpectedEnd")
    ELSE
      LET val == bytes[1]
          g == Append(groups, val % 128)
      IN  IF val < 128
            THEN IF i = max - 1 /\ val > max_last
                   THEN Err("DeserializeBadVarint")
                   ELSE Ok(g, Tail(bytes))
            ELSE take_varint(Tail(bytes), i + 1, max, max_last, g)

\* bit k of the number the groups spell
GroupBit(g, k) ==
    IF (k \div 7) + 1 > Len(g) THEN 0
    ELSE (g[(k \div 7) + 1] \div Pow2(k % 7)) % 2

\* byte j (0 = least significant) of the number the groups spell
GroupByte(g, j) ==
    GroupBit(g, 8 * j) + 2 * GroupBit(g, 8 * j + 1) + 4 * GroupBit(g, 8 * j + 2)
      + 8 * GroupBit(g, 8 * j + 3) + 16 * GroupBit(g, 8 * j + 4)
      + 32 * GroupBit(g, 8 * j + 5) + 64 * GroupBit(g, 8 * j + 6)
      + 128 * GroupBit(g, 8 * j + 7)

\* de_u64 that takes at most nine bytes
de_u64_nine(bytes) ==
    LET r == take_varint(bytes, 0, 9, 127, <<>>) IN
    IF ~r.ok THEN r
    ELSE Ok([j \in 1..8 |-> GroupByte(r.val, 8 - j)], r.rest)

de_u64(bytes) ==
    LET r == take_varint(bytes, 0, 10, 1, <<>>) IN
    IF ~r.ok THEN r
    ELSE Ok([j \in 1..8 |-> GroupByte(r.val, 8 - j)], r.rest)

GroupAt(g, i) == IF i <= Len(g) THEN g[i] ELSE 0

de_u32(bytes) ==
    LET r == take_varint(bytes, 0, 5, 15, <<>>) IN
    IF ~r.ok THEN r
    ELSE Ok([ hi |-> GroupAt(r.val, 5),
              lo |-> GroupAt(r.val, 1) + 128 * GroupAt(r.val, 2)
                       + 16384 * GroupAt(r.val, 3) + 2097152 * GroupAt(r.val, 4) ],
            r.rest)

\* a visitor that falls back to the default variant
de_AppState_or_default(bytes) ==
    LET r == de_u32(bytes) IN
    IF ~r.ok THEN r
    ELSE IF r.val.hi = 0 /\ r.val.lo = 1 THEN Ok("Running", r.rest)
    ELSE IF r.val.hi = 0 /\ r.val.lo = 2 THEN Ok("Fault", r.rest)
    ELSE Ok("StandBy", r.rest)

\* the derive's variant visitor: index 0, 1 or 2, anything else is
\* invalid_value("variant index 0 <= i < 3")
de_AppState(bytes) ==
    LET r == de_u32(bytes) IN
    IF ~r.ok THEN r
    ELSE IF r.val.hi = 0 /\ r.val.lo = 0 THEN Ok("StandBy", r.rest)
    ELSE IF r.val.hi = 0 /\ r.val.lo = 1 THEN Ok("Running", r.rest)
    ELSE IF r.val.hi = 0 /\ r.val.lo = 2 THEN Ok("Fault", r.rest)
    ELSE Err("SerdeDeCustom")

\* n f32 fields in a row; val is the sequence of them
RECURSIVE de_f32s(_, _, _)
de_f32s(bytes, n, acc) ==
    IF n = 0 THEN Ok(acc, bytes)
    ELSE LET r == de_f32(bytes) IN
         IF ~r.ok THEN r ELSE de_f32s(r.rest, n - 1, Append(acc, r.val))

de_MockloopSetpoint(bytes) ==
    LET r == de_f32s(bytes, 4, <<>>) IN
    IF ~r.ok THEN r
    ELSE Ok([ systemic_resistance |-> r.val[1],
              pulmonary_resistance |-> r.val[2],
              systemic_afterload_compliance |-> r.val[3],
              pulmonary_afterload_compliance |-> r.val[4] ], r.rest)

de_HeartControllerSetpoint(bytes) ==
    LET r == de_f32s(bytes, 3, <<>>) IN
    IF ~r.ok THEN r
    ELSE Ok([ heart_rate |-> r.val[1],
              pressure |-> r.val[2],
              systole_ratio |-> r.val[3] ], r.rest)

de_Setpoint(bytes) ==
    LET e == de_bool(bytes) IN
    IF ~e.ok THEN e
    ELSE LET m == de_MockloopSetpoint(e.rest) IN
         IF ~m.ok THEN m
         ELSE LET h == de_HeartControllerSetpoint(m.rest) IN
              IF ~h.ok THEN h
              ELSE Ok([ enable |-> e.val,
                        mockloop_setpoint |-> m.val,
                        heart_controller_setpoint |-> h.val ], h.rest)

de_Measurements(bytes) ==
    LET t == de_u64(bytes) IN
    IF ~t.ok THEN t
    ELSE LET r == de_f32s(t.rest, 7, <<>>) IN
         IF ~r.ok THEN r
         ELSE Ok([ timestamp |-> t.val,
                   regulator_actual_pressure |-> r.val[1],
                   systemic_flow |-> r.val[2],
                   pulmonary_flow |-> r.val[3],
                   systemic_preload_pressure |-> r.val[4],
                   systemic_afterload_pressure |-> r.val[5],
                   pulmonary_preload_pressure |-> r.val[6],
                   pulmonary_afterload_pressure |-> r.val[7] ], r.rest)

de_Report(bytes) ==
    LET s == de_Setpoint(bytes) IN
    IF ~s.ok THEN s
    ELSE LET a == de_AppState(s.rest) IN
         IF ~a.ok THEN a
         ELSE LET m == de_Measurements(a.rest) IN
              IF ~m.ok THEN m
              ELSE Ok([ setpoint |-> s.val,
                        app_state |-> a.val,
                        measurements |-> m.val ], m.rest)

\* postcard::from_bytes_cobs: decode the frame in place, then deserialize the
\* first sz bytes; bytes left over after the value are ignored.  The result
\* is [ok, err, val, buf], buf the caller's buffer as the call leaves it.
deserialize_report(buf) ==
    LET d == decode_in_place(buf) IN
    IF ~d.ok
      THEN [ok |-> FALSE, err |-> "DeserializeBadEncoding", val |-> <<>>, buf |-> d.buf]
      ELSE LET r == de_Report(SubSeq(d.buf, 1, d.dst))
           IN  [ok |-> r.ok, err |-> r.err, val |-> r.val, buf |-> d.buf]

deserialize_setpoint(buf) ==
    LET d == decode_in_place(buf) IN
    IF ~d.ok
      THEN [ok |-> FALSE, err |-> "DeserializeBadEncoding", val |-> <<>>, buf |-> d.buf]
      ELSE LET r == de_Setpoint(SubSeq(d.buf, 1, d.dst))
           IN  [ok |-> r.ok, err |-> r.err, val |-> r.val, buf |-> d.buf]

-----------------------------------------------------------------------------
(* defmt formatter *)

\* Quantity::get::<N>(): the stored base-unit value read in unit N.  The figure
\* is kept as the pair (stored f32, unit read in): equal figures are equal text.
get(x, unit) == [base |-> x, unit |-> unit]

\* impl Format for Measurements: the arguments of defmt::write!, in order
Format_Measurements(m) ==
    << [label |-> "time", value |-> m.timestamp],
       [label |-> "reg", value |-> get(m.regulator_actual_pressure, "millimeter_of_mercury")],
       [label |-> "sf", value |-> get(m.systemic_flow, "liter_per_minute")],
       [label |-> "pf", value |-> get(m.systemic_flow, "liter_per_minute")],
       [label |-> "spp", value |-> get(m.systemic_preload_pressure, "millimeter_of_mercury")],
       [label |-> "sap", value |-> get(m.systemic_afterload_pressure, "millimeter_of_mercury")],
       [label |-> "ppp", value |-> get(m.pulmonary_preload_pressure, "millimeter_of_mercury")],
       [label |-> "pap", value |-> get(m.pulmonary_afterload_pressure, "millimeter_of_mercury")] >>

\* the figure printed after a label
Figure(text, label) ==
    text[CHOOSE i \in 1..Len(text) : text[i].label = label]

-----------------------------------------------------------------------------
(* Values the operations are applied to *)

\* a Setpoint with every field distinct and bytes of every kind in it
SetpointRun ==
    [ enable |-> TRUE,
      mockloop_setpoint |->
        [ systemic_resistance |-> <<63, 128, 0, 0>>,
          pulmonary_resistance |-> <<64, 0, 0, 0>>,
          systemic_afterload_compliance |-> <<1, 2, 3, 4>>,
          pulmonary_afterload_compliance |-> <<127, 192, 0, 1>> ],
      heart_controller_setpoint |->
        [ heart_rate |-> Frequency_new_hertz(<<63, 192, 0, 0>>),
          pressure |-> Pressure_new_bar(<<63, 128, 0, 0>>),
          systole_ratio |-> F32_THREE_SEVENTHS ] ]

\* every byte of its payload is 0x00
SetpointZero ==
    [ enable |-> FALSE,
      mockloop_setpoint |->
        [ systemic_resistance |-> F32_ZERO,
          pulmonary_resistance |-> F32_ZERO,
          systemic_afterload_compliance |-> F32_ZERO,
          pulmonary_afterload_compliance |-> F32_ZERO ],
      heart_controller_setpoint |->
        [ heart_rate |-> F32_ZERO, pressure |-> F32_ZERO, systole_ratio |-> F32_ZERO ] ]

Setpoints == {Setpoint_default, SetpointRun, SetpointZero}

\* 0, 1000, 128, 2^63 and u64::MAX
Timestamps ==
    { <<0, 0, 0, 0, 0, 0, 0, 0>>, <<0, 0, 0, 0, 0, 0, 3, 232>>,
      <<0, 0, 0, 0, 0, 0, 0, 128>>, <<128, 0, 0, 0, 0, 0, 0, 0>>,
      <<255, 255, 255, 255, 255, 255, 255, 255>> }

\* the seven quantities: all 0.0; all different; and the latter with another
\* pulmonary_flow, or another systemic_flow
Quantities ==
    LET q == [ regulator_actual_pressure |-> <<71, 195, 80, 0>>,
               systemic_flow |-> <<56, 209, 183, 23>>,
               pulmonary_flow |-> <<56, 81, 183, 23>>,
               systemic_preload_pressure |-> <<1, 2, 3, 4>>,
               systemic_afterload_pressure |-> <<255, 255, 255, 255>>,
               pulmonary_preload_pressure |-> <<128, 0, 0, 0>>,
               pulmonary_afterload_pressure |-> <<0, 0, 0, 1>> ]
    IN  { [ regulator_actual_pressure |-> F32_ZERO, systemic_flow |-> F32_ZERO,
            pulmonary_flow |-> F32_ZERO, systemic_preload_pressure |-> F32_ZERO,
            systemic_afterload_pressure |-> F32_ZERO,
            pulmonary_preload_pressure |-> F32_ZERO,
            pulmonary_afterload_pressure |-> F32_ZERO ],
          q,
          [q EXCEPT !.pulmonary_flow = <<57, 0, 0, 0>>],
          [q EXCEPT !.systemic_flow = <<57, 0, 0, 0>>] }

Measurement(t, q) ==
    [ timestamp |-> t,
      regulator_actual_pressure |-> q.regulator_actual_pressure,
      systemic_flow |-> q.systemic_flow,
      pulmonary_flow |-> q.pulmonary_flow,
      systemic_preload_pressure |-> q.systemic_preload_pressure,
      systemic_afterload_pressure |-> q.systemic_afterload_pressure,
      pulmonary_preload_pressure |-> q.pulmonary_preload_pressure,
      pulmonary_afterload_pressure |-> q.pulmonary_afterload_pressure ]

\* every timestamp with all-different quantities, and every set of quantities
\* at 1000 ms
MeasurementValues ==
    {Measurement(t, q) : t \in Timestamps, q \in {x \in Quantities : x.pulmonary_flow = <<56, 81, 183, 23>> /\ x.systemic_flow = <<56, 209, 183, 23>>}}
      \cup {Measurement(<<0, 0, 0, 0, 0, 0, 3, 232>>, q) : q \in Quantities}

\* what a buffer holds before the call
FillBytes == {0, 170}

Buffer(n, fill) == [i \in 1..n |-> fill]

\* buffer lengths tried for a frame of len bytes: none, one byte, around the
\* frame's own length, and the published sizes
BufLens(len, published) ==
    {0, 1} \cup {n \in 0..(len + MaxSlack) : n + MaxSlack >= len} \cup published

\* bytes of a garbage span: none of them 0x00
GarbageBytes == {1, 3, 200}

RECURSIVE SeqsUpTo(_, _)
SeqsUpTo(S, n) ==
    IF n = 0 THEN {<<>>}
    ELSE LET shorter == SeqsUpTo(S, n - 1)
         IN  shorter \cup {Append(g, b) : g \in shorter, b \in S}

Garbage == SeqsUpTo(GarbageBytes, MaxGarbageLen) \ {<<>>}

\* variant indices no AppState has, as the varint(u32) bytes that spell them:
\* 3, 4, 127, 128, 255, 2^28 and u32::MAX
BadTags ==
    { <<3>>, <<4>>, <<127>>, <<128, 1>>, <<255, 1>>,
      <<128, 128, 128, 128, 1>>, <<255, 255, 255, 255, 15>> }

-----------------------------------------------------------------------------
(* State machine: the controller samples, serializes and sends Reports; the  *)
(* host serializes and sends Setpoints; each end cuts its inbound stream at  *)
(* 0x00 and deserializes the chunk.  call, recv and log record the last call *)
(* of their kind; a record is cleared when another operation runs, since the *)
(* buffers belong to the call.                                               *)

NoCall ==
    [ op |-> "none", value |-> <<>>, before |-> <<>>,
      res |-> [ok |-> FALSE, err |-> "", used |-> 0, buf |-> <<>>] ]

NoWire == [kind |-> "none", of |-> "", value |-> <<>>, garbage |-> <<>>, payload |-> <<>>]

NoRecv ==
    [ op |-> "none", chunk |-> <<>>, wire |-> NoWire, after_drop |-> FALSE,
      res |-> [ok |-> FALSE, err |-> "", val |-> <<>>, buf |-> <<>>] ]

NoLog == [op |-> "none", m |-> <<>>, text |-> <<>>]

Init ==
    /\ app_state = AppState_default
    /\ setpoint = [value |-> Setpoint_default, applied |-> FALSE]
    /\ call = NoCall
    /\ stream = <<>>
    /\ wire = NoWire
    /\ recv = NoRecv
    /\ resync = FALSE
    /\ log = NoLog

\* no call is in progress and nothing is in flight
Idle == call = NoCall /\ recv = NoRecv /\ log = NoLog /\ stream = <<>>

\* the Report the controller builds from its state and a sample
Report(m) == [setpoint |-> setpoint.value, app_state |-> app_state, measurements |-> m]

\* the controller advances its mode
Advance ==
    /\ Idle
    /\ app_state' = next(app_state)
    /\ call' = NoCall
    /\ recv' = NoRecv
    /\ log' = NoLog
    /\ UNCHANGED <<setpoint, stream, wire, resync>>

\* serialize_report(report, buf) on a buffer of n bytes
SerializeReport ==
    /\ Idle
    /\ \E m \in MeasurementValues, fill \in FillBytes :
         \E n \in BufLens(Len(ser_Report(Report(m))) + 2,
                          {REPORT_BYTES(a) : a \in U64Aligns}) :
           call' = [ op |-> "serialize_report",
                     value |-> Report(m),
                     before |-> Buffer(n, fill),
                     res |-> serialize_report(Report(m), Buffer(n, fill)) ]
    /\ recv' = NoRecv
    /\ log' = NoLog
    /\ UNCHANGED <<app_state, setpoint, stream, wire, resync>>

\* serialize_setpoint(setpoint, buf) on a buffer of n bytes
SerializeSetpoint ==
    /\ Idle
    /\ \E s \in Setpoints, fill \in FillBytes :
         \E n \in BufLens(Len(ser_Setpoint(s)) + 2, {SETPOINT_BYTES}) :
           call' = [ op |-> "serialize_setpoint",
                     value |-> s,
                     before |-> Buffer(n, fill),
                     res |-> serialize_setpoint(s, Buffer(n, fill)) ]
    /\ recv' = NoRecv
    /\ log' = NoLog
    /\ UNCHANGED <<app_state, setpoint, stream, wire, resync>>

\* the sizes the sizing contract tells a caller to give the buffer
Published(op) ==
    IF op = "serialize_report" THEN {REPORT_BYTES(a) : a \in U64Aligns}
    ELSE {SETPOINT_BYTES}

\* the call filled a buffer of a published size
Sendable == call.op # "none" /\ call.res.ok /\ Len(call.before) \in Published(call.op)

KindOf(op) == IF op = "serialize_report" THEN "Report" ELSE "Setpoint"

PayloadOf(c) ==
    IF c.op = "serialize_report" THEN ser_Report(c.value) ELSE ser_Setpoint(c.value)

\* the frame of a payload, from a buffer long enough for it
FrameOf(payload) == Returned(to_slice_cobs(payload, Buffer(Len(payload) + 2, 0)))

\* the returned bytes go onto the link, behind a span of line noise g (no
\* 0x00 in it) on the controller-to-host direction
Transmit ==
    /\ stream = <<>>
    /\ Sendable
    /\ \E g \in Garbage \cup {<<>>} :
         /\ g # <<>> => call.op = "serialize_report"
         /\ stream' = g \o Returned(call.res)
         /\ wire' = [ kind |-> "frame", of |-> KindOf(call.op), value |-> call.value,
                      garbage |-> g, payload |-> PayloadOf(call) ]
    /\ call' = NoCall
    /\ recv' = NoRecv
    /\ log' = NoLog
    /\ UNCHANGED <<app_state, setpoint, resync>>

\* a well-framed chunk whose payload stops after only k bytes of the value
TransmitTruncated ==
    /\ stream = <<>>
    /\ Sendable
    /\ LET payload == PayloadOf(call)
       IN  \E k \in 0..(Len(payload) - 1) :
             /\ stream' = FrameOf(Take(payload, k))
             /\ wire' = [ kind |-> "truncated", of |-> KindOf(call.op),
                          value |-> call.value, garbage |-> <<>>,
                          payload |-> Take(payload, k) ]
    /\ call' = NoCall
    /\ recv' = NoRecv
    /\ log' = NoLog
    /\ UNCHANGED <<app_state, setpoint, resync>>

\* a well-framed Report chunk whose app_state tag is no variant's index
TransmitBadTag ==
    /\ stream = <<>>
    /\ Sendable
    /\ call.op = "serialize_report"
    /\ \E tag \in BadTags :
         LET payload == ser_Setpoint(call.value.setpoint) \o tag
                          \o ser_Measurements(call.value.measurements)
         IN  /\ stream' = FrameOf(payload)
             /\ wire' = [ kind |-> "badtag", of |-> "Report", value |-> call.value,
                          garbage |-> <<>>, payload |-> payload ]
    /\ call' = NoCall
    /\ recv' = NoRecv
    /\ log' = NoLog
    /\ UNCHANGED <<app_state, setpoint, resync>>

\* the bytes up to and including the next 0x00
Chunk == Take(stream, Position(stream, 0))

\* the host: deserialize_report on the next chunk
ReceiveReport ==
    /\ wire.of = "Report"
    /\ Position(stream, 0) > 0
    /\ recv' = [ op |-> "deserialize_report", chunk |-> Chunk, wire |-> wire,
                 after_drop |-> resync, res |-> deserialize_report(Chunk) ]
    /\ resync' = (wire.garbage # <<>>)
    /\ stream' = Drop(stream, Position(stream, 0))
    /\ wire' = NoWire
    /\ call' = NoCall
    /\ log' = NoLog
    /\ UNCHANGED <<app_state, setpoint>>

\* the controller: deserialize_setpoint on the next chunk; a decoded Setpoint
\* becomes the one it applies and echoes
ReceiveSetpoint ==
    /\ wire.of = "Setpoint"
    /\ Position(stream, 0) > 0
    /\ LET res == deserialize_setpoint(Chunk)
       IN  /\ recv' = [ op |-> "deserialize_setpoint", chunk |-> Chunk, wire |-> wire,
                        after_drop |-> FALSE, res |-> res ]
           /\ setpoint' = IF res.ok THEN [value |-> res.val, applied |-> TRUE]
                          ELSE setpoint
    /\ stream' = Drop(stream, Position(stream, 0))
    /\ wire' = NoWire
    /\ call' = NoCall
    /\ log' = NoLog
    /\ UNCHANGED <<app_state, resync>>

\* a Measurements is logged
FormatMeasurements ==
    /\ Idle
    /\ \E m \in MeasurementValues :
         log' = [op |-> "format", m |-> m, text |-> Format_Measurements(m)]
    /\ call' = NoCall
    /\ recv' = NoRecv
    /\ UNCHANGED <<app_state, setpoint, stream, wire, resync>>

\* the caller is done with the last call's buffer and result
Done ==
    /\ stream = <<>>
    /\ ~Idle
    /\ call' = NoCall
    /\ recv' = NoRecv
    /\ log' = NoLog
    /\ UNCHANGED <<app_state, setpoint, stream, wire, resync>>

Next ==
    \/ Advance
    \/ SerializeReport
    \/ SerializeSetpoint
    \/ Transmit
    \/ TransmitTruncated
    \/ TransmitBadTag
    \/ ReceiveReport
    \/ ReceiveSetpoint
    \/ FormatMeasurements
    \/ Done

Spec == Init /\ [][Next]_vars

-----------------------------------------------------------------------------
(* Properties *)

U64_MAX == <<255, 255, 255, 255, 255, 255, 255, 255>>

Serialized == call.op # "none"

Received == recv.op # "none"

\* C1: round trip.  Whenever serialize_report or serialize_setpoint succeeds,
\* on a buffer of any sufficient length, deserializing the returned bytes
\* succeeds and yields the value that was serialized, field for field and bit
\* for bit; and so does the receiver of a frame that crossed the link clean.
C1_RoundTrip ==
    /\ (call.op = "serialize_report" /\ call.res.ok) =>
         LET d == deserialize_report(Returned(call.res))
         IN  d.ok /\ d.val = call.value
    /\ (call.op = "serialize_setpoint" /\ call.res.ok) =>
         LET d == deserialize_setpoint(Returned(call.res))
         IN  d.ok /\ d.val = call.value
    /\ (Received /\ recv.wire.kind = "frame" /\ recv.wire.garbage = <<>>) =>
         recv.res.ok /\ recv.res.val = recv.wire.value

\* a Report with the largest timestamp, NaN and -0.0 among its quantities and
\* a non-default Setpoint came back from the link intact
C1_Witness ==
    /\ recv.op = "deserialize_report"
    /\ recv.wire.kind = "frame"
    /\ recv.wire.garbage = <<>>
    /\ recv.res.ok
    /\ recv.res.val.measurements.timestamp = U64_MAX
    /\ recv.res.val.measurements.systemic_afterload_pressure = <<255, 255, 255, 255>>
    /\ recv.res.val.setpoint = SetpointRun
    /\ recv.res.val.app_state = "Fault"

\* C2: framing safety.  The bytes a successful serialize_report or
\* serialize_setpoint returns hold 0x00 exactly once, as their last byte.
C2_FramingSafety ==
    (Serialized /\ call.res.ok) =>
      LET out == Returned(call.res)
      IN  /\ Len(out) > 0
          /\ out[Len(out)] = 0
          /\ Count(out, 0) = 1

\* a payload made of zero bytes only was framed
C2_Witness ==
    /\ call.op = "serialize_setpoint"
    /\ call.res.ok
    /\ call.value = SetpointZero
    /\ \A i \in 1..Len(ser_Setpoint(call.value)) : ser_Setpoint(call.value)[i] = 0

\* C3: sizing.  On a buffer of exactly REPORT_BYTES bytes serialize_report
\* succeeds and returns at most REPORT_BYTES bytes, whatever the target's u64
\* alignment; on a buffer of exactly SETPOINT_BYTES bytes serialize_setpoint
\* succeeds and returns at most SETPOINT_BYTES bytes.
C3_Sizing ==
    /\ (call.op = "serialize_report"
          /\ \E a \in U64Aligns : Len(call.before) = REPORT_BYTES(a)) =>
         call.res.ok /\ \A a \in U64Aligns : call.res.used <= REPORT_BYTES(a)
    /\ (call.op = "serialize_setpoint" /\ Len(call.before) = SETPOINT_BYTES) =>
         call.res.ok /\ call.res.used <= SETPOINT_BYTES

\* the longest frame: a ten-byte timestamp in the smaller of the REPORT_BYTES
C3_Witness ==
    /\ call.op = "serialize_report"
    /\ call.value.measurements.timestamp = U64_MAX
    /\ Len(ser_u64(call.value.measurements.timestamp)) = 10
    /\ \A a \in U64Aligns : Len(call.before) <= REPORT_BYTES(a)
    /\ call.res.ok
    /\ call.res.used = 70

CycleEdges == {<<"StandBy", "Running">>, <<"Running", "Fault">>, <<"Fault", "StandBy">>}

\* C4: every step of the mode follows the cycle StandBy -> Running -> Fault ->
\* StandBy: the successor is never the state itself, Fault is entered only
\* from Running, and three steps lead back.
C4_Cycle ==
    [][Advance => /\ <<app_state, app_state'>> \in CycleEdges
                  /\ app_state' # app_state
                  /\ (app_state' = "Fault" => app_state = "Running")
                  /\ next(next(next(app_state))) = app_state]_vars

\* the mode got to Fault, the last state of the cycle
C4_Witness == app_state = "Fault" /\ next(app_state) = AppState_default

\* C5 as stated: a failed serialize leaves the caller's buffer as it was.
C5_AllOrNothing ==
    (Serialized /\ ~call.res.ok) =>
      call.res.err = "SerializeBufferFull" /\ call.res.buf = call.before

\* C5 as amended: serialize fails exactly when the buffer is shorter than the
\* frame; it then returns the error SerializeBufferFull and does not panic,
\* and the buffer is not preserved: every byte of it has been written, with
\* the frame's byte at that place or with the 0x00 that stands in for the
\* code of the block still open.
C5_ErrorNoPanic ==
    Serialized =>
      LET frame == FrameOf(PayloadOf(call))
      IN  /\ call.res.ok <=> Len(call.before) >= Len(frame)
          /\ call.res.err # "panic"
          /\ Len(call.res.buf) = Len(call.before)
          /\ ~call.res.ok =>
               /\ call.res.err = "SerializeBufferFull"
               /\ \A i \in 1..Len(call.res.buf) :
                    call.res.buf[i] = frame[i] \/ call.res.buf[i] = 0

\* a buffer one byte short of the frame: the call failed and changed it
C5_Witness ==
    /\ Serialized
    /\ ~call.res.ok
    /\ Len(call.before) + 1 = Len(FrameOf(PayloadOf(call)))
    /\ call.res.buf # call.before

\* C6: a well-framed chunk whose app_state tag is none of 0, 1, 2 makes
\* deserialize_report fail; no Report comes out of it.
C6_InvalidDiscriminant ==
    (Received /\ recv.wire.kind = "badtag") => ~recv.res.ok

\* the tag u32::MAX was refused by the variant visitor
C6_Witness ==
    /\ Received
    /\ recv.wire.kind = "badtag"
    /\ SubSeq(recv.wire.payload, 30, 34) = <<255, 255, 255, 255, 15>>
    /\ ~recv.res.ok
    /\ recv.res.err = "SerdeDeCustom"

C8_TruncatedFails ==
    (Received /\ recv.wire.kind = "truncated") => ~recv.res.ok

\* a Report payload short of its last byte alone ran out mid-field
C8_Witness ==
    /\ recv.op = "deserialize_report"
    /\ recv.wire.kind = "truncated"
    /\ Len(recv.wire.payload) + 1 = Len(ser_Report(recv.wire.value))
    /\ ~recv.res.ok
    /\ recv.res.err = "DeserializeUnexpectedEnd"

C10_PfIsPulmonaryFlow ==
    log.op = "format" =>
      /\ Figure(log.text, "sf").value = get(log.m.systemic_flow, "liter_per_minute")
      /\ Figure(log.text, "pf").value = get(log.m.pulmonary_flow, "liter_per_minute")

=============================================================================
